---- MODULE Spec2Model ----
(***************************************************************************)
(* Election outcome prediction: the offline Data Cleaner                   *)
(* (src/src/preprocess.py) and the Flask prediction / party-info service   *)
(* in its two variants (src/app.py, random forest with recency weighting;  *)
(* src/election_prediction_project/app.py, logistic regression).           *)
(***************************************************************************)
EXTENDS Integers, Sequences, FiniteSets, TLC

VARIABLES
    input_csv,   \* preprocess.py: rows of data/converted_data.csv
    raw,         \* preprocess.py: the data frame `raw`
    pc,          \* preprocess.py: position in the script
    output_csv,  \* preprocess.py: rows of data/clean_election.csv, <<>> until saved
    variant,     \* service: "rf" is src/app.py, "lr" is election_prediction_project/app.py
    csv,         \* service: the data file the service reads
    data,        \* service: global `data`
    le_party,    \* service: global `le_party` (src/app.py only)
    model,       \* service: global `model`
    server,      \* service: "idle", "pending" (a request is in), "responded"
    request,     \* service: the request being served
    response,    \* service: the response to it
    calls,       \* service: the library calls made while serving it, in order
    threads      \* service run threaded: each request thread's position and what it saw

cleaner_vars == <<input_csv, raw, pc, output_csv>>

service_vars == <<variant, csv, data, le_party, model, server, request, response, calls, threads>>

vars == <<cleaner_vars, service_vars>>

----------------------------------------------------------------------------
(* Bounds of the cleaner's input *)

MaxRows == 2

Years == {1, 2}

\* pandas' missing value in a numeric column
NaN == -1

\* an empty CSV cell of a text column (read as missing)
EmptyCell == ""

RawParties == {"INC(I)", "INC", "BJP"}
RawCandidateTypes == {"new", "mixed", "incumbent", EmptyCell}
RawStrengths == {1, 2}

RawRow ==
    [year : Years, party : RawParties, mla_strength : RawStrengths,
     candidate_type : RawCandidateTypes, winner : {0, 1}]

RawTables == UNION {[1..n -> RawRow] : n \in 0..MaxRows}

----------------------------------------------------------------------------
(* Helpers on tables (sequences of rows) *)

Range(s) == {s[i] : i \in DOMAIN s}

\* python / pandas string order of the party names that occur
PartyRank(p) ==
    CASE p = "BJP" -> 1
      [] p = "INC" -> 2
      [] p = "INC(I)" -> 3
      [] p = "NCP" -> 4
      [] p = "SS" -> 5
      [] OTHER -> 6

IsNaN(v) == v = NaN

IsEmptyCell(v) == v = EmptyCell

\* the smallest element of a non-empty set of <<year, party>> keys
MinKey(S) ==
    CHOOSE k \in S : \A o \in S :
        k[1] < o[1] \/ (k[1] = o[1] /\ PartyRank(k[2]) <= PartyRank(o[2]))

RECURSIVE SortedKeys(_)
SortedKeys(S) ==
    IF S = {} THEN <<>> ELSE <<MinKey(S)>> \o SortedKeys(S \ {MinKey(S)})

----------------------------------------------------------------------------
(* preprocess.py, statement by statement *)

\* raw.drop_duplicates(): keep the first occurrence of every distinct row
drop_duplicates(t) ==
    LET marked == [i \in DOMAIN t |->
                     [row |-> t[i], first |-> \A j \in 1..(i - 1) : t[j] # t[i]]]
        kept == SelectSeq(marked, LAMBDA e : e.first)
    IN  [i \in DOMAIN kept |-> kept[i].row]

\* party_map
party_map(p) ==
    CASE p = "INC(I)" -> "INC"
      [] p = "Shiv Sena (UBT)" -> "SS"
      [] p = "Shiv Sena (Shinde)" -> "SS"
      [] p = "Shiv Sena" -> "SS"
      [] p = "NCP (Ajit)" -> "NCP"
      [] p = "NCP (SP)" -> "NCP"
      [] OTHER -> p

\* raw["party"].replace(party_map)
replace_party(t) == [i \in DOMAIN t |-> [t[i] EXCEPT !.party = party_map(t[i].party)]]

\* the rows of t with the given year and party, in t's order
GroupRows(t, k) == SelectSeq(t, LAMBDA r : r.year = k[1] /\ r.party = k[2])

\* GroupBy.first() on a numeric column: the first non-missing value of the
\* column within the group
FirstNumber(column) ==
    IF \A i \in DOMAIN column : IsNaN(column[i]) THEN NaN
    ELSE column[CHOOSE i \in DOMAIN column :
                  /\ ~IsNaN(column[i])
                  /\ \A j \in 1..(i - 1) : IsNaN(column[j])]

\* GroupBy.first() on a text column
FirstText(column) ==
    IF \A i \in DOMAIN column : IsEmptyCell(column[i]) THEN EmptyCell
    ELSE column[CHOOSE i \in DOMAIN column :
                  /\ ~IsEmptyCell(column[i])
                  /\ \A j \in 1..(i - 1) : IsEmptyCell(column[j])]

\* raw.groupby(["year", "party"]).first().reset_index(): one row per key, keys
\* in sorted order, every other column reduced on its own
groupby_first(t) ==
    LET keys == SortedKeys({<<t[i].year, t[i].party>> : i \in DOMAIN t})
    IN  [n \in DOMAIN keys |->
           LET g == GroupRows(t, keys[n])
           IN  [year |-> keys[n][1],
                party |-> keys[n][2],
                mla_strength |-> FirstNumber([i \in DOMAIN g |-> g[i].mla_strength]),
                candidate_type |-> FirstText([i \in DOMAIN g |-> g[i].candidate_type]),
                winner |-> FirstNumber([i \in DOMAIN g |-> g[i].winner])]]

\* candidate_map; Series.map leaves a value outside the map missing
candidate_map(c) ==
    CASE c = "new" -> 0
      [] c = "mixed" -> 1
      [] c = "incumbent" -> 2
      [] OTHER -> NaN

map_candidate_type(t) ==
    [i \in DOMAIN t |-> [t[i] EXCEPT !.candidate_type = candidate_map(t[i].candidate_type)]]

\* year_data["mla_strength"].idxmax(): the first row of the year holding the
\* greatest mla_strength of the year
idxmax(t, year) ==
    CHOOSE i \in DOMAIN t :
        /\ t[i].year = year
        /\ \A j \in DOMAIN t : t[j].year = year => t[j].mla_strength <= t[i].mla_strength
        /\ \A j \in 1..(i - 1) : t[j].year = year => t[j].mla_strength < t[i].mla_strength

\* a cleaner that forgets raw["winner"] = 0 before the loop
fix_winner_no_reset(t) ==
    [i \in DOMAIN t |-> [t[i] EXCEPT !.winner = IF i = idxmax(t, t[i].year) THEN 1 ELSE @]]

\* raw["winner"] = 0, then one raw.loc[idx, "winner"] = 1 per year
fix_winner(t) ==
    [i \in DOMAIN t |-> [t[i] EXCEPT !.winner = IF i = idxmax(t, t[i].year) THEN 1 ELSE 0]]

\* the order of sort_values(["year", "mla_strength"], ascending=[True, False])
SortsBefore(a, b) ==
    a.year < b.year \/ (a.year = b.year /\ a.mla_strength > b.mla_strength)

RECURSIVE sort_values(_)
sort_values(t) ==
    IF t = <<>> THEN <<>>
    ELSE LET m == CHOOSE i \in DOMAIN t :
                    /\ \A j \in DOMAIN t : ~SortsBefore(t[j], t[i])
                    /\ \A j \in 1..(i - 1) : SortsBefore(t[i], t[j])
             rest == [i \in 1..(Len(t) - 1) |-> IF i < m THEN t[i] ELSE t[i + 1]]
         IN  <<t[m]>> \o sort_values(rest)


----------------------------------------------------------------------------
(* The service: values *)

MaxYear == 3

MAJORITY == 145
TOTAL_SEATS == 288
PREDICTION_YEAR == 2027

\* DECAY = 0.85 = DecayNum / DecayDen
DecayNum == 17
DecayDen == 20

DataYears == 1..MaxYear

\* a JSON value of a request body; Absent is a key the body does not hold
Str(s) == [kind |-> "str", text |-> s, num |-> 0]
Num(n) == [kind |-> "num", text |-> "", num |-> n]
Null == [kind |-> "null", text |-> "", num |-> 0]
Absent == [kind |-> "absent", text |-> "", num |-> 0]

required_fields ==
    <<"party_name", "mla_strength", "alliance_mla_strength", "past_rs_wins", "candidate_type">>

\* the numeric texts of the request domain and what float() makes of them
NumericTexts == {"0", "1", "2", "7", "-1", "132"}

FloatOfText(s) ==
    CASE s = "0" -> 0
      [] s = "1" -> 1
      [] s = "2" -> 2
      [] s = "7" -> 7
      [] s = "-1" -> -1
      [] s = "132" -> 132

\* float(v) raises ValueError on other text and TypeError on null
FloatRaises(v) ==
    \/ v.kind = "null"
    \/ v.kind = "str" /\ v.text \notin NumericTexts

float(v) == IF v.kind = "num" THEN v.num ELSE FloatOfText(v.text)

\* str.lower() on the texts of the request domain
lower(s) ==
    CASE s = "Experienced" -> "experienced"
      [] s = "INCUMBENT" -> "incumbent"
      [] OTHER -> s

\* str.strip() on the texts of the request domain
strip(s) ==
    CASE s = " new " -> "new"
      [] OTHER -> s

\* round(num / den) to the nearest integer, ties to the even one (num >= 0, den > 0)
RoundHalfEven(num, den) ==
    LET q == num \div den
        r == num % den
    IN  IF 2 * r < den THEN q
        ELSE IF 2 * r > den THEN q + 1
        ELSE IF q % 2 = 0 THEN q ELSE q + 1

RECURSIVE Pow(_, _)
Pow(b, e) == IF e = 0 THEN 1 ELSE b * Pow(b, e - 1)

RECURSIVE Sum(_)
Sum(q) == IF q = <<>> THEN 0 ELSE Head(q) + Sum(Tail(q))

----------------------------------------------------------------------------
(* The service: the data file and the process-wide state *)

NoFile == [exists |-> FALSE, rows |-> <<>>]
File(rows) == [exists |-> TRUE, rows |-> rows]

NoData == [set |-> FALSE, rows |-> <<>>]
NoEncoder == [set |-> FALSE, classes_ |-> <<>>]

NoInfo ==
    [found |-> FALSE, party_name |-> "", current_mla_strength |-> 0,
     current_alliance_strength |-> 0, total_rs_wins |-> 0, win_rate |-> 0,
     historical_data |-> <<>>]

NoStats == [total_records |-> 0, unique_parties |-> <<>>, years |-> <<>>, party_wins |-> <<>>]

EmptyBody == [f \in Range(required_fields) |-> Absent]

NoRequest == [endpoint |-> "none", is_json |-> FALSE, body |-> EmptyBody, party |-> ""]

NoResponse ==
    [status |-> 0, success |-> FALSE, error |-> "none", missing |-> <<>>,
     prediction |-> 0, win_probability |-> 0, party_name |-> Absent,
     party_info |-> NoInfo, parties |-> <<>>, stats |-> NoStats,
     escaped |-> FALSE, prediction_data |-> <<>>]

\* no request threads: the requests are served one at a time
NoThreads == <<>>

\* the cleaner's specification leaves the service switched off
ServiceOff ==
    /\ variant = "off"
    /\ csv = NoFile
    /\ data = NoData
    /\ le_party = NoEncoder
    /\ model = "None"
    /\ server = "off"
    /\ request = NoRequest
    /\ response = NoResponse
    /\ calls = <<>>
    /\ threads = NoThreads

\* one record of the data file; in the domain every (year, party) has at most
\* one record
DataRow(year, party, mla, winner) ==
    [year |-> year, party |-> party, mla_strength |-> mla,
     alliance_mla_strength |-> mla + 1, past_rs_wins |-> year,
     candidate_type |-> 1, winner |-> winner]

Absentee == [present |-> FALSE, mla_strength |-> 0, winner |-> 0]

BJPCells == {Absentee} \cup [present : {TRUE}, mla_strength : {1, 2}, winner : {0, 1}]
INCCells == {Absentee} \cup [present : {TRUE}, mla_strength : {1}, winner : {0}]

\* the file's rows for one choice of cells, by year, BJP before INC
RECURSIVE RowsOf(_, _, _)
RowsOf(bjp, inc, y) ==
    IF y > MaxYear THEN <<>>
    ELSE (IF bjp[y].present
            THEN <<DataRow(y, "BJP", bjp[y].mla_strength, bjp[y].winner)>> ELSE <<>>)
         \o (IF inc[y].present
               THEN <<DataRow(y, "INC", inc[y].mla_strength, inc[y].winner)>> ELSE <<>>)
         \o RowsOf(bjp, inc, y + 1)

\* data files with records in every year
HistoryFiles ==
    {File(RowsOf(bjp, inc, 1)) : bjp \in [DataYears -> BJPCells], inc \in [DataYears -> INCCells]}

\* data files with records in the first year only, and no file at all
SmallFiles ==
    {NoFile} \cup {f \in HistoryFiles : \A i \in DOMAIN f.rows : f.rows[i].year = 1}

----------------------------------------------------------------------------
(* load_and_train_model *)

\* LabelEncoder.fit: the distinct party names in sorted order
RECURSIVE SortedParties(_)
SortedParties(S) ==
    IF S = {} THEN <<>>
    ELSE LET m == CHOOSE p \in S : \A o \in S : PartyRank(p) <= PartyRank(o)
         IN  <<m>> \o SortedParties(S \ {m})

fit_transform(rows) == SortedParties({rows[i].party : i \in DOMAIN rows})

\* the code LabelEncoder gives a party of the fitted table: its place in classes_
label_code(classes_, party) == (CHOOSE i \in DOMAIN classes_ : classes_[i] = party) - 1

\* the majority threshold and the divisor of the shares in the training columns
TRAIN_MAJORITY == 145
TRAIN_TOTAL_SEATS == 288

\* the columns load_and_train_model adds to the table: party_encoded,
\* has_majority, mla_share and alliance_share (a share x / 288 is <<x, 288>>)
feature_engineering(rows) ==
    LET classes_ == fit_transform(rows)
    IN  [i \in DOMAIN rows |->
           [year |-> rows[i].year,
            party |-> rows[i].party,
            mla_strength |-> rows[i].mla_strength,
            alliance_mla_strength |-> rows[i].alliance_mla_strength,
            past_rs_wins |-> rows[i].past_rs_wins,
            candidate_type |-> rows[i].candidate_type,
            winner |-> rows[i].winner,
            party_encoded |-> label_code(classes_, rows[i].party),
            has_majority |-> IF rows[i].alliance_mla_strength >= TRAIN_MAJORITY THEN 1 ELSE 0,
            mla_share |-> <<rows[i].mla_strength, TRAIN_TOTAL_SEATS>>,
            alliance_share |-> <<rows[i].alliance_mla_strength, TRAIN_TOTAL_SEATS>>]]

FEATURES ==
    <<"year", "party_encoded", "mla_strength", "alliance_mla_strength", "past_rs_wins",
      "candidate_type", "has_majority", "mla_share", "alliance_share">>

\* X = data[FEATURES]: the matrix the model is fitted on, one vector per record
X(rows) == [i \in DOMAIN rows |-> [k \in DOMAIN FEATURES |-> rows[i][FEATURES[k]]]]

\* train_test_split(test_size=0.2) raises when the train part would be empty
train_test_split_raises(rows) == Len(rows) < 2

\* load_and_train_model: the globals afterwards, whether it raised, and the
\* library calls it made.  g is the record of the three globals.
load_and_train_model(g) ==
    IF ~csv.exists
    THEN [g |-> g, raised |-> TRUE, calls |-> <<"read_csv">>]
    ELSE LET d == [set |-> TRUE,
                   rows |-> IF variant = "rf" THEN feature_engineering(csv.rows) ELSE csv.rows]
             le == IF variant = "rf"
                     THEN [set |-> TRUE, classes_ |-> fit_transform(csv.rows)]
                     ELSE g.le_party
             enc == IF variant = "rf" THEN <<"fit_transform">> ELSE <<>>
         IN  IF train_test_split_raises(csv.rows)
             THEN [g |-> [data |-> d, le_party |-> le, model |-> g.model],
                   raised |-> TRUE,
                   calls |-> <<"read_csv">> \o enc \o <<"train_test_split">>]
             ELSE [g |-> [data |-> d, le_party |-> le, model |-> "fitted"],
                   raised |-> FALSE,
                   calls |-> <<"read_csv">> \o enc \o <<"train_test_split", "fit", "score">>]

Globals == [data |-> data, le_party |-> le_party, model |-> model]

NotRaised(g) == [g |-> g, raised |-> FALSE, calls |-> <<>>]

----------------------------------------------------------------------------
(* get_party_info *)

\* data[data['party'] == party_name]: a name that is no string matches no row
PartyRows(rows, name) ==
    SelectSeq(rows, LAMBDA r : name.kind = "str" /\ r.party = name.text)

\* sort_values('year', ascending=False)
RECURSIVE SortYearDescending(_)
SortYearDescending(t) ==
    IF t = <<>> THEN <<>>
    ELSE LET m == CHOOSE i \in DOMAIN t :
                    /\ \A j \in DOMAIN t : t[j].year <= t[i].year
                    /\ \A j \in 1..(i - 1) : t[j].year < t[i].year
             rest == [i \in 1..(Len(t) - 1) |-> IF i < m THEN t[i] ELSE t[i + 1]]
         IN  <<t[m]>> \o SortYearDescending(rest)

\* a win rate that counts the lost elections
plain_loss_rate(party_data) ==
    LET total_elections == Len(party_data)
        wins == Len(SelectSeq(party_data, LAMBDA r : r.winner = 0))
    IN  IF total_elections > 0 THEN RoundHalfEven(1000 * wins, total_elections) ELSE 0

\* src/election_prediction_project/app.py: wins / total_elections * 100,
\* returned through round(win_rate, 1); the value is in tenths of a percent
plain_win_rate(party_data) ==
    LET total_elections == Len(party_data)
        wins == Len(SelectSeq(party_data, LAMBDA r : r.winner = 1))
    IN  IF total_elections > 0 THEN RoundHalfEven(1000 * wins, total_elections) ELSE 0

\* a weight that grows with age: DECAY ** (year - min_year)
WeightOfAge(year, max_year, span) ==
    Pow(DecayNum, span - (max_year - year)) * Pow(DecayDen, max_year - year)

\* DECAY ** (max_year - year), times DecayDen ** span to stay in the integers
Weight(year, max_year, span) ==
    Pow(DecayNum, max_year - year) * Pow(DecayDen, span - (max_year - year))

\* src/app.py: round(weighted_wins / total_weight * 100, 1), in tenths of a percent
weighted_win_rate(party_data) ==
    LET max_year == party_data[1].year
        span == max_year - party_data[Len(party_data)].year
        weights == [i \in DOMAIN party_data |-> Weight(party_data[i].year, max_year, span)]
        weighted_wins == Sum([i \in DOMAIN party_data |-> party_data[i].winner * weights[i]])
        total_weight == Sum(weights)
    IN  IF total_weight > 0 THEN RoundHalfEven(1000 * weighted_wins, total_weight) ELSE 0

win_rate(party_data) ==
    IF variant = "rf" THEN weighted_win_rate(party_data) ELSE plain_win_rate(party_data)

historical_data(party_data) ==
    [i \in DOMAIN party_data |->
       [year |-> party_data[i].year,
        mla_strength |-> party_data[i].mla_strength,
        alliance_mla_strength |-> party_data[i].alliance_mla_strength,
        past_rs_wins |-> party_data[i].past_rs_wins,
        winner |-> party_data[i].winner]]

\* a lookup that takes the oldest record
oldest(party_data) == party_data[Len(party_data)]

\* party_data.iloc[0]
latest(party_data) == party_data[1]

\* the body of get_party_info once data is loaded
party_info(rows, name) ==
    LET party_data == SortYearDescending(PartyRows(rows, name))
    IN  IF Len(party_data) = 0 THEN NoInfo
        ELSE [found |-> TRUE,
              party_name |-> name.text,
              current_mla_strength |-> latest(party_data).mla_strength,
              current_alliance_strength |-> latest(party_data).alliance_mla_strength,
              total_rs_wins |-> latest(party_data).past_rs_wins,
              win_rate |-> win_rate(party_data),
              historical_data |-> historical_data(party_data)]

\* get_party_info: loads first when data is None; an exception of the load
\* leaves through the caller
get_party_info(g, name) ==
    LET l == IF g.data.set THEN NotRaised(g) ELSE load_and_train_model(g)
    IN  [g |-> l.g, raised |-> l.raised, calls |-> l.calls,
         info |-> IF l.raised THEN NoInfo ELSE party_info(l.g.data.rows, name)]

----------------------------------------------------------------------------
(* The script as a state machine *)

CleanerInit ==
    /\ input_csv \in RawTables
    /\ raw = <<>>
    /\ pc = "read_csv"
    /\ output_csv = <<>>
    /\ ServiceOff

ReadCsv ==
    /\ pc = "read_csv"
    /\ raw' = input_csv
    /\ pc' = "drop_duplicates"
    /\ UNCHANGED <<input_csv, output_csv, service_vars>>

DropDuplicates ==
    /\ pc = "drop_duplicates"
    /\ raw' = drop_duplicates(raw)
    /\ pc' = "replace"
    /\ UNCHANGED <<input_csv, output_csv, service_vars>>

ReplaceParty ==
    /\ pc = "replace"
    /\ raw' = replace_party(raw)
    /\ pc' = "groupby"
    /\ UNCHANGED <<input_csv, output_csv, service_vars>>

GroupByFirst ==
    /\ pc = "groupby"
    /\ raw' = groupby_first(raw)
    /\ pc' = "candidate_map"
    /\ UNCHANGED <<input_csv, output_csv, service_vars>>

MapCandidateType ==
    /\ pc = "candidate_map"
    /\ raw' = map_candidate_type(raw)
    /\ pc' = "fix_winner"
    /\ UNCHANGED <<input_csv, output_csv, service_vars>>

FixWinner ==
    /\ pc = "fix_winner"
    /\ raw' = fix_winner(raw)
    /\ pc' = "sort"
    /\ UNCHANGED <<input_csv, output_csv, service_vars>>

SortAndSave ==
    /\ pc = "sort"
    /\ raw' = sort_values(raw)
    /\ output_csv' = sort_values(raw)
    /\ pc' = "saved"
    /\ UNCHANGED <<input_csv, service_vars>>

CleanerNext ==
    \/ ReadCsv
    \/ DropDuplicates
    \/ ReplaceParty
    \/ GroupByFirst
    \/ MapCandidateType
    \/ FixWinner
    \/ SortAndSave

SpecCleaner == CleanerInit /\ [][CleanerNext]_vars

----------------------------------------------------------------------------
(* Claims about the cleaner *)

OutputYears == {output_csv[i].year : i \in DOMAIN output_csv}

\* C1: once the cleaner has saved its output, every year of the output has
\* exactly one record with winner = 1, that record holds the greatest
\* mla_strength of the year, and every other record of the year has
\* winner = 0, whatever the winner column of the input held.
C1_OneWinnerPerYear ==
    pc = "saved" =>
        \A y \in OutputYears :
            \E i \in DOMAIN output_csv :
                /\ output_csv[i].year = y
                /\ output_csv[i].winner = 1
                /\ \A j \in DOMAIN output_csv :
                       output_csv[j].year = y =>
                           /\ output_csv[j].mla_strength <= output_csv[i].mla_strength
                           /\ (j # i => output_csv[j].winner = 0)

\* C1's case: two parties of one year, the weaker one marked winner in the
\* input and the stronger one not, and the output saved.
C1_Witness ==
    /\ pc = "saved"
    /\ Len(output_csv) = 2
    /\ output_csv[1].year = output_csv[2].year
    /\ \E i, j \in DOMAIN input_csv :
           /\ input_csv[i].year = input_csv[j].year
           /\ input_csv[i].mla_strength < input_csv[j].mla_strength
           /\ input_csv[i].winner = 1
           /\ input_csv[j].winner = 0

\* the table the grouping step receives: duplicates removed, parties remapped
Remapped == replace_party(drop_duplicates(input_csv))

\* the first row, in input order, of the group of key k
FirstRowOfGroup(k) == GroupRows(Remapped, k)[1]

\* C2: right after the grouping step the table holds exactly one record per
\* (year, canonical party) pair of the input, and each record is, field by
\* field, the first row of its group.
C2_GroupKeepsFirstRow ==
    pc = "candidate_map" =>
        /\ \A k \in {<<Remapped[i].year, Remapped[i].party>> : i \in DOMAIN Remapped} :
               Cardinality({n \in DOMAIN raw : <<raw[n].year, raw[n].party>> = k}) = 1
        /\ \A n \in DOMAIN raw :
               raw[n] = FirstRowOfGroup(<<raw[n].year, raw[n].party>>)

\* what the grouping step does hold to: one record per pair, each field the
\* first non-missing value of that field within the group
C2_GroupTakesFirstValues ==
    pc = "candidate_map" =>
        /\ \A k \in {<<Remapped[i].year, Remapped[i].party>> : i \in DOMAIN Remapped} :
               Cardinality({n \in DOMAIN raw : <<raw[n].year, raw[n].party>> = k}) = 1
        /\ \A n \in DOMAIN raw :
               LET g == GroupRows(Remapped, <<raw[n].year, raw[n].party>>)
               IN  /\ raw[n].mla_strength = g[1].mla_strength
                   /\ raw[n].winner = g[1].winner
                   /\ \/ raw[n].candidate_type = g[1].candidate_type
                      \/ /\ IsEmptyCell(g[1].candidate_type)
                         /\ \E i \in DOMAIN g : raw[n].candidate_type = g[i].candidate_type

----------------------------------------------------------------------------
(* predict *)

\* candidate_type_mapping of src/app.py
RfCandidateTexts ==
    {"new", "first-time", "firsttime", "fresh", "incumbent", "experienced", "experience",
     "senior", "veteran", "returning", "mixed", "both", "0", "1", "2"}

rf_candidate_type_mapping(s) ==
    CASE s \in {"new", "first-time", "firsttime", "fresh", "0"} -> 0
      [] s \in {"incumbent", "experienced", "experience", "senior", "veteran", "returning", "1"} -> 1
      [] s \in {"mixed", "both", "2"} -> 2

\* candidate_type_mapping of src/election_prediction_project/app.py
LrCandidateTexts == {"new", "incumbent", "mixed", "0", "1", "2"}

lr_candidate_type_mapping(s) ==
    CASE s \in {"new", "0"} -> 0
      [] s \in {"incumbent", "1"} -> 1
      [] s \in {"mixed", "2"} -> 2

\* a candidate_type block that accepts the codes 0, 1 and 2 only
candidate_type_in_range(v) ==
    LET text == IF v.kind = "str" THEN strip(lower(v.text)) ELSE ""
        code == IF v.kind = "num" THEN v.num
                ELSE IF text \in RfCandidateTexts THEN rf_candidate_type_mapping(text)
                ELSE IF text \in NumericTexts THEN FloatOfText(text)
                ELSE -1
    IN  IF code \in {0, 1, 2}
        THEN [error |-> "none", code |-> code]
        ELSE [error |-> "invalid_candidate_type", code |-> 0]

\* the candidate_type block: [error |-> "none", code |-> c] or the error it ends in
candidate_type_of(v) ==
    IF v.kind = "str"
    THEN IF variant = "rf"
         THEN LET candidate_type_value_lower == strip(lower(v.text))
              IN  IF candidate_type_value_lower \in RfCandidateTexts
                  THEN [error |-> "none", code |-> rf_candidate_type_mapping(candidate_type_value_lower)]
                  ELSE IF candidate_type_value_lower \in NumericTexts
                  THEN [error |-> "none", code |-> FloatOfText(candidate_type_value_lower)]
                  ELSE [error |-> "invalid_candidate_type", code |-> 0]
         ELSE LET candidate_type_value == lower(v.text)
              IN  IF candidate_type_value \in LrCandidateTexts
                  THEN [error |-> "none", code |-> lr_candidate_type_mapping(candidate_type_value)]
                  ELSE IF candidate_type_value \in NumericTexts
                  THEN [error |-> "none", code |-> FloatOfText(candidate_type_value)]
                  ELSE [error |-> "invalid_numeric", code |-> 0]
    ELSE IF FloatRaises(v) THEN [error |-> "invalid_numeric", code |-> 0]
    ELSE [error |-> "none", code |-> float(v)]

\* a fallback to the last party of the enumeration
party_encoded_last(classes_, name) ==
    IF name.kind = "str" /\ \E i \in DOMAIN classes_ : classes_[i] = name.text
    THEN (CHOOSE i \in DOMAIN classes_ : classes_[i] = name.text) - 1
    ELSE Len(classes_) - 1

\* an encoding that counts the parties from 1
party_encoded_from_one(classes_, name) ==
    IF name.kind = "str" /\ \E i \in DOMAIN classes_ : classes_[i] = name.text
    THEN CHOOSE i \in DOMAIN classes_ : classes_[i] = name.text
    ELSE 1

\* le_party.transform([name])[0], with the fallback to classes_[0] on an unseen name
party_encoded(classes_, name) ==
    IF name.kind = "str" /\ \E i \in DOMAIN classes_ : classes_[i] = name.text
    THEN (CHOOSE i \in DOMAIN classes_ : classes_[i] = name.text) - 1
    ELSE 0

\* a handler that takes the majority to start above 145
has_majority_above(alliance_mla_strength) == IF alliance_mla_strength > MAJORITY THEN 1 ELSE 0

has_majority(alliance_mla_strength) == IF alliance_mla_strength >= MAJORITY THEN 1 ELSE 0

\* a share x / 288 is kept as the pair <<x, 288>>
share(x) == <<x, TOTAL_SEATS>>

prediction_data(classes_, name, mla_strength, alliance_mla_strength, past_rs_wins, candidate_type) ==
    IF variant = "rf"
    THEN <<PREDICTION_YEAR, party_encoded(classes_, name), mla_strength,
           alliance_mla_strength, past_rs_wins, candidate_type,
           has_majority(alliance_mla_strength), share(mla_strength),
           share(alliance_mla_strength)>>
    ELSE <<PREDICTION_YEAR, mla_strength, alliance_mla_strength, past_rs_wins, candidate_type>>

\* the test of the 'must be positive' check
is_negative(x) == x < 0

Failure(status, error) == [NoResponse EXCEPT !.status = status, !.error = error]

\* request_data[field] == '' or field not in request_data
IsMissingField(body, f) == body[f].kind = "absent" \/ body[f] = Str("")

missing_fields(body) == SelectSeq(required_fields, LAMBDA f : IsMissingField(body, f))

\* the handler from the missing-field check on, with the model loaded:
\* the response, and the library calls made
predict_body(g, body, prediction, probability) ==
    LET missing == missing_fields(body)
        ct == candidate_type_of(body["candidate_type"])
    IN  IF missing # <<>>
        THEN [response |-> [Failure(400, "missing_fields") EXCEPT !.missing = missing],
              calls |-> <<>>]
        ELSE IF \/ FloatRaises(body["mla_strength"])
                \/ FloatRaises(body["alliance_mla_strength"])
                \/ FloatRaises(body["past_rs_wins"])
        THEN [response |-> Failure(400, "invalid_numeric"), calls |-> <<>>]
        ELSE IF ct.error # "none"
        THEN [response |-> Failure(400, ct.error), calls |-> <<>>]
        ELSE IF \/ is_negative(float(body["mla_strength"]))
                \/ is_negative(float(body["alliance_mla_strength"]))
                \/ is_negative(float(body["past_rs_wins"]))
        THEN [response |-> Failure(400, "not_positive"), calls |-> <<>>]
        ELSE IF g.model # "fitted"
        THEN [response |-> Failure(500, "internal"),
              calls |-> IF variant = "rf" THEN <<"transform", "predict">> ELSE <<"predict">>]
        ELSE [response |->
                [NoResponse EXCEPT
                   !.status = 200,
                   !.success = TRUE,
                   !.prediction = prediction,
                   !.win_probability = probability,
                   !.party_name = body["party_name"],
                   !.party_info = party_info(g.data.rows, body["party_name"]),
                   !.prediction_data =
                       prediction_data(g.le_party.classes_, body["party_name"],
                                       float(body["mla_strength"]),
                                       float(body["alliance_mla_strength"]),
                                       float(body["past_rs_wins"]), ct.code)],
              calls |-> IF variant = "rf"
                          THEN <<"transform", "predict", "predict_proba">>
                          ELSE <<"predict", "predict_proba">>]

\* predict: the globals afterwards, the response, and the library calls made
predict(g, req, prediction, probability) ==
    LET l == IF g.model = "None" THEN load_and_train_model(g) ELSE NotRaised(g)
    IN  IF l.raised \/ ~req.is_json
        THEN [g |-> l.g, response |-> Failure(500, "internal"), calls |-> l.calls]
        ELSE LET b == predict_body(l.g, req.body, prediction, probability)
             IN  [g |-> l.g, response |-> b.response, calls |-> l.calls \o b.calls]

----------------------------------------------------------------------------
(* The other endpoints *)

\* an exception that no handler catches: the framework answers 500
Escaped == [Failure(500, "internal") EXCEPT !.escaped = TRUE]

api_party_detail(g, name) ==
    LET r == get_party_info(g, Str(name))
    IN  [g |-> r.g, calls |-> r.calls,
         response |->
            IF r.raised THEN Escaped
            ELSE IF ~r.info.found THEN Failure(404, "not_found")
            ELSE [NoResponse EXCEPT !.status = 200, !.success = TRUE, !.party_info = r.info]]

\* the rendered page: the same lookup, a text 404 or the template
party_detail(g, name) ==
    LET r == get_party_info(g, Str(name))
    IN  [g |-> r.g, calls |-> r.calls,
         response |->
            IF r.raised THEN Escaped
            ELSE IF ~r.info.found THEN Failure(404, "not_found")
            ELSE [NoResponse EXCEPT !.status = 200, !.party_info = r.info]]

\* data['party'].unique(): the names in order of first appearance
unique_parties(rows) ==
    LET firsts == SelectSeq([i \in DOMAIN rows |->
                               [party |-> rows[i].party,
                                first |-> \A j \in 1..(i - 1) : rows[j].party # rows[i].party]],
                            LAMBDA e : e.first)
    IN  [i \in DOMAIN firsts |-> firsts[i].party]

\* parties_info.sort(key=current_mla_strength, reverse=True): a stable sort
RECURSIVE SortByStrength(_)
SortByStrength(t) ==
    IF t = <<>> THEN <<>>
    ELSE LET m == CHOOSE i \in DOMAIN t :
                    /\ \A j \in DOMAIN t : t[j].current_mla_strength <= t[i].current_mla_strength
                    /\ \A j \in 1..(i - 1) : t[j].current_mla_strength < t[i].current_mla_strength
             rest == [i \in 1..(Len(t) - 1) |-> IF i < m THEN t[i] ELSE t[i + 1]]
         IN  <<t[m]>> \o SortByStrength(rest)

api_parties(g) ==
    LET l == IF g.data.set THEN NotRaised(g) ELSE load_and_train_model(g)
        names == SelectSeq(unique_parties(l.g.data.rows), LAMBDA n : n # "Independent")
    IN  [g |-> l.g, calls |-> l.calls,
         response |->
            IF l.raised THEN Escaped
            ELSE [NoResponse EXCEPT
                    !.status = 200, !.success = TRUE,
                    !.parties = SortByStrength([i \in DOMAIN names |->
                                                  party_info(l.g.data.rows, Str(names[i]))])]]

RECURSIVE SortedYears(_)
SortedYears(S) ==
    IF S = {} THEN <<>>
    ELSE LET m == CHOOSE y \in S : \A o \in S : y <= o
         IN  <<m>> \o SortedYears(S \ {m})

get_stats(g) ==
    LET l == IF g.data.set THEN NotRaised(g) ELSE load_and_train_model(g)
        rows == l.g.data.rows
        winners == {rows[i].party : i \in {j \in DOMAIN rows : rows[j].winner = 1}}
    IN  [g |-> l.g, calls |-> l.calls,
         response |->
            IF l.raised THEN Escaped
            ELSE [NoResponse EXCEPT
                    !.status = 200, !.success = TRUE,
                    !.stats =
                       [total_records |-> Len(rows),
                        unique_parties |-> unique_parties(rows),
                        years |-> SortedYears({rows[i].year : i \in DOMAIN rows}),
                        party_wins |->
                           [p \in winners |->
                              Cardinality({i \in DOMAIN rows :
                                             rows[i].party = p /\ rows[i].winner = 1})]]]]

----------------------------------------------------------------------------
(* The service as a state machine *)

\* the request bodies of the domain, field by field
PartyNameValues == {Absent, Str(""), Null, Str("BJP"), Str("XYZ")}
MlaStrengthValues == {Absent, Str(""), Null, Str("abc"), Num(-1), Num(0), Str("132")}
AllianceStrengthValues == {Absent, Str(""), Str("abc"), Num(-1), Num(144), Num(145), Num(203)}
PastWinsValues == {Absent, Num(-1), Num(5)}
CandidateTypeValues ==
    {Absent, Str(""), Null, Str("incumbent"), Str("Experienced"), Str(" new "), Str("mixed"),
     Str("1"), Str("xyz"), Num(1), Num(7), Str("7"), Str("-1")}

Bodies ==
    {[f \in Range(required_fields) |->
        CASE f = "party_name" -> p
          [] f = "mla_strength" -> m
          [] f = "alliance_mla_strength" -> a
          [] f = "past_rs_wins" -> w
          [] f = "candidate_type" -> c] :
       p \in PartyNameValues, m \in MlaStrengthValues, a \in AllianceStrengthValues,
       w \in PastWinsValues, c \in CandidateTypeValues}

PredictRequests ==
    {[endpoint |-> "predict", is_json |-> TRUE, body |-> b, party |-> ""] : b \in Bodies}
    \cup {[endpoint |-> "predict", is_json |-> FALSE, body |-> EmptyBody, party |-> ""]}

QueryRequests ==
    {[endpoint |-> e, is_json |-> FALSE, body |-> EmptyBody, party |-> p] :
        e \in {"api_party_detail", "party_detail"}, p \in {"BJP", "INC", "XYZ"}}
    \cup {[endpoint |-> e, is_json |-> FALSE, body |-> EmptyBody, party |-> ""] :
            e \in {"api_parties", "get_stats"}}

\* predict_proba()[0][1] * 100 rounded to two places, in hundredths of a percent
WinProbabilities == {0, 6667, 10000}

CleanerOff ==
    /\ input_csv = <<>>
    /\ raw = <<>>
    /\ pc = "off"
    /\ output_csv = <<>>

ServiceStart ==
    /\ variant \in {"rf", "lr"}
    /\ data = NoData
    /\ le_party = NoEncoder
    /\ model = "None"
    /\ server = "boot"
    /\ request = NoRequest
    /\ response = NoResponse
    /\ calls = <<>>
    /\ threads = NoThreads
    /\ CleanerOff

Init ==
    /\ csv \in SmallFiles
    /\ ServiceStart

InfoInit ==
    /\ csv \in HistoryFiles \cup {NoFile}
    /\ ServiceStart

\* python app.py: the main block trains before serving, and a failure ends
\* the process
MainStartup ==
    /\ server = "boot"
    /\ LET l == load_and_train_model(Globals)
       IN  /\ data' = l.g.data
           /\ le_party' = l.g.le_party
           /\ model' = l.g.model
           /\ calls' = l.calls
           /\ server' = IF l.raised THEN "exited" ELSE "idle"
    /\ UNCHANGED <<variant, csv, request, response, cleaner_vars, threads>>

\* the module imported by a WSGI server: nothing is loaded until a request needs it
WsgiStartup ==
    /\ server = "boot"
    /\ server' = "idle"
    /\ UNCHANGED <<variant, csv, data, le_party, model, request, response, calls, cleaner_vars, threads>>

Receive(requests) ==
    /\ server = "idle"
    /\ request' \in requests
    /\ server' = "pending"
    /\ response' = NoResponse
    /\ calls' = <<>>
    /\ UNCHANGED <<variant, csv, data, le_party, model, cleaner_vars, threads>>

ReceivePredict == Receive(PredictRequests)

ReceiveQuery == Receive(QueryRequests)

\* a handler ran: its globals, response and calls become the state
Served(r) ==
    /\ data' = r.g.data
    /\ le_party' = r.g.le_party
    /\ model' = r.g.model
    /\ response' = r.response
    /\ calls' = r.calls
    /\ server' = "responded"
    /\ UNCHANGED <<variant, csv, request, cleaner_vars, threads>>

Predict ==
    /\ server = "pending"
    /\ request.endpoint = "predict"
    /\ \E prediction \in {0, 1}, probability \in WinProbabilities :
          Served(predict(Globals, request, prediction, probability))

ApiPartyDetail ==
    /\ server = "pending"
    /\ request.endpoint = "api_party_detail"
    /\ Served(api_party_detail(Globals, request.party))

PartyDetail ==
    /\ server = "pending"
    /\ request.endpoint = "party_detail"
    /\ Served(party_detail(Globals, request.party))

ApiParties ==
    /\ server = "pending"
    /\ request.endpoint = "api_parties"
    /\ Served(api_parties(Globals))

GetStats ==
    /\ server = "pending"
    /\ request.endpoint = "get_stats"
    /\ Served(get_stats(Globals))

\* the response is sent; the server waits for the next request
Reply ==
    /\ server = "responded"
    /\ server' = "idle"
    /\ request' = NoRequest
    /\ response' = NoResponse
    /\ calls' = <<>>
    /\ UNCHANGED <<variant, csv, data, le_party, model, cleaner_vars, threads>>

QueryNext ==
    \/ MainStartup
    \/ WsgiStartup
    \/ ReceiveQuery
    \/ ApiPartyDetail
    \/ PartyDetail
    \/ ApiParties
    \/ GetStats
    \/ Reply

Next ==
    \/ QueryNext
    \/ ReceivePredict
    \/ Predict

Spec == Init /\ [][Next]_vars

SpecInfo == InfoInit /\ [][QueryNext]_vars

----------------------------------------------------------------------------
(* Claims about predict *)

HasCall(c) == \E i \in DOMAIN calls : calls[i] = c

\* a predict request with a JSON body has been answered by a handler whose
\* model is built
PredictAnswered ==
    /\ server = "responded"
    /\ request.endpoint = "predict"
    /\ request.is_json
    /\ model = "fitted"

NumericFields == {"mla_strength", "alliance_mla_strength", "past_rs_wins"}

\* the fields the body lacks: absent, the empty string, or null
Lacking(body) ==
    {f \in Range(required_fields) : body[f].kind \in {"absent", "null"} \/ body[f] = Str("")}

\* C3: a request lacking a field (absent, empty or null) is answered 400
\* "Missing required fields", and the message names exactly the lacking fields.
C3_LackingFieldsNamed ==
    (PredictAnswered /\ Lacking(request.body) # {}) =>
        /\ response.status = 400
        /\ ~response.success
        /\ response.error = "missing_fields"
        /\ Range(response.missing) = Lacking(request.body)

AllSupplied(body) == \A f \in Range(required_fields) : ~IsMissingField(body, f)

SomeUnparsable(body) == \E f \in NumericFields : FloatRaises(body[f])

SomeNegative(body) ==
    /\ ~SomeUnparsable(body)
    /\ \E f \in NumericFields : float(body[f]) < 0

\* candidate types that every variant resolves
PlainCandidateTypes == {Str("incumbent"), Str("mixed"), Str("1"), Num(1)}

\* a text that is neither a token of the synonym table nor a number
UnknownCandidateText(v) ==
    /\ v.kind = "str"
    /\ strip(lower(v.text)) \notin (RfCandidateTexts \cup NumericTexts)

\* a predict request with a JSON body has been answered, the model built or not
PredictHandled ==
    /\ server = "responded"
    /\ request.endpoint = "predict"
    /\ request.is_json

\* C4: with all five fields supplied, a number that does not parse or is
\* negative is answered 400 with the invalid-numeric or the must-be-positive
\* error, never with a server error; numbers that parse and are >= 0 are not
\* rejected by this check.
C4_NumericErrorOnly ==
    (PredictHandled /\ AllSupplied(request.body)) =>
        /\ (SomeUnparsable(request.body) \/ SomeNegative(request.body)) =>
               /\ response.status = 400
               /\ ~response.success
               /\ response.error \in {"invalid_numeric", "not_positive"}
        /\ (~SomeUnparsable(request.body) /\ ~SomeNegative(request.body)) =>
               response.error # "not_positive"

\* what the numeric check does hold to once the model is built: 400 with the
\* invalid-numeric error when a number does not parse; when all parse and one
\* is negative, the must-be-positive error unless the candidate type is
\* rejected first; numbers >= 0, zero included, pass.
C4_NumericValidation ==
    (PredictAnswered /\ AllSupplied(request.body)) =>
        /\ SomeUnparsable(request.body) =>
               /\ response.status = 400
               /\ ~response.success
               /\ response.error = "invalid_numeric"
        /\ SomeNegative(request.body) =>
               /\ response.status = 400
               /\ ~response.success
               /\ IF variant = "rf" /\ UnknownCandidateText(request.body["candidate_type"])
                    THEN response.error = "invalid_candidate_type"
                    ELSE response.error \in {"invalid_numeric", "not_positive"}
               /\ request.body["candidate_type"] \in PlainCandidateTypes =>
                      response.error = "not_positive"
        /\ (~SomeUnparsable(request.body) /\ ~SomeNegative(request.body)) =>
               /\ response.error # "not_positive"
               /\ request.body["candidate_type"] \in PlainCandidateTypes =>
                      response.status = 200

\* the numbers of the body are valid: they parse and are >= 0
ValidNumbers(body) == ~SomeUnparsable(body) /\ ~SomeNegative(body)

\* the synonym table of the specification, on lower-case tokens
SynonymTokens ==
    {"new", "first-time", "fresh", "incumbent", "experienced", "veteran", "returning",
     "mixed", "both", "0", "1", "2"}

SynonymCode(token) ==
    CASE token \in {"new", "first-time", "fresh", "0"} -> 0
      [] token \in {"incumbent", "experienced", "veteran", "returning", "1"} -> 1
      [] token \in {"mixed", "both", "2"} -> 2

\* the candidate-type component of the vector handed to the model
CandidateFeature ==
    IF variant = "rf" THEN response.prediction_data[6] ELSE response.prediction_data[5]

\* C5: with the other fields valid, a text candidate_type resolves
\* case-insensitively through the synonym table ("Experienced" and "1" both
\* to code 1), and a text that is neither in the table nor numeric is
\* rejected with the invalid-candidate-type error, status 400.
C5_CandidateTypeResolves ==
    (/\ PredictAnswered
     /\ AllSupplied(request.body)
     /\ ValidNumbers(request.body)
     /\ request.body["candidate_type"].kind = "str") =>
        LET token == lower(request.body["candidate_type"].text)
        IN  /\ token \in SynonymTokens =>
                   /\ response.status = 200
                   /\ CandidateFeature = SynonymCode(token)
            /\ (token \notin SynonymTokens /\ strip(token) \notin (SynonymTokens \cup NumericTexts)) =>
                   /\ response.status = 400
                   /\ response.error = "invalid_candidate_type"

\* C6: a request that fails validation is answered before any model
\* invocation of that request: no fit, predict or predict_proba call
\* precedes the 400 response.
C6_NoModelCallBeforeRejection ==
    (/\ server = "responded"
     /\ request.endpoint = "predict"
     /\ response.status = 400) =>
        ~(HasCall("fit") \/ HasCall("predict") \/ HasCall("predict_proba"))

\* a request that passes validation: a party name, valid numbers and a
\* candidate type every variant resolves
PassesValidation(body) ==
    /\ body["party_name"].kind = "str"
    /\ AllSupplied(body)
    /\ ValidNumbers(body)
    /\ (body["candidate_type"] \in PlainCandidateTypes
        \/ body["candidate_type"] \in {Str("Experienced"), Num(7), Str("7")})

\* C7: a request that passes validation against a built model is answered
\* success = true with a prediction of 0 or 1, a win probability within
\* [0, 100] and the request's party name, and src/app.py hands the model
\* has_majority = 1 exactly when alliance_mla_strength >= 145.
C7_ValidRequestPredicted ==
    (PredictAnswered /\ variant = "rf" /\ PassesValidation(request.body)) =>
        /\ response.status = 200
        /\ response.success
        /\ response.prediction \in {0, 1}
        /\ response.win_probability \in 0..10000
        /\ response.party_name = request.body["party_name"]
        /\ HasCall("predict") /\ HasCall("predict_proba")
        /\ response.prediction_data[7] \in {0, 1}
        /\ response.prediction_data[7] = 1 <=>
               float(request.body["alliance_mla_strength"]) >= 145

\* C7's case: BJP, 132 seats, alliance 203, 5 past wins, incumbent
C7_Witness ==
    /\ PredictAnswered
    /\ variant = "rf"
    /\ request.body["party_name"] = Str("BJP")
    /\ request.body["mla_strength"] = Str("132")
    /\ request.body["alliance_mla_strength"] = Num(203)
    /\ request.body["past_rs_wins"] = Num(5)
    /\ request.body["candidate_type"] = Str("incumbent")
    /\ response.success
    /\ response.prediction_data[7] = 1

----------------------------------------------------------------------------
(* Claims about the party information *)

\* the table was loaded when the request came in, or the request loaded it
\* and the load went through
LookedUpInLoadedData == data.set /\ (calls = <<>> \/ HasCall("score"))

\* a party-detail request has been answered by a lookup in the loaded table
DetailAnswered ==
    /\ server = "responded"
    /\ request.endpoint \in {"api_party_detail", "party_detail"}
    /\ LookedUpInLoadedData

\* the records of the requested party in the loaded table
RecordsOf(p) == {i \in DOMAIN data.rows : data.rows[i].party = p}

\* C8: for a party without a record get_party_info returns None without
\* raising and both detail endpoints answer 404 (the JSON one with
\* success = false); for a party with records the current standing is that
\* of its record with the greatest year.
C8_PartyLookup ==
    DetailAnswered =>
        IF RecordsOf(request.party) = {}
        THEN /\ ~response.escaped
             /\ response.status = 404
             /\ ~response.success
             /\ response.error = "not_found"
             /\ ~response.party_info.found
        ELSE /\ response.status = 200
             /\ response.party_info.found
             /\ response.party_info.party_name = request.party
             /\ \E i \in RecordsOf(request.party) :
                   /\ \A j \in RecordsOf(request.party) : data.rows[j].year <= data.rows[i].year
                   /\ response.party_info.current_mla_strength = data.rows[i].mla_strength
                   /\ response.party_info.current_alliance_strength =
                          data.rows[i].alliance_mla_strength
                   /\ response.party_info.total_rs_wins = data.rows[i].past_rs_wins

\* C8's case: the JSON endpoint asked for a party the loaded table does not hold
C8_Witness ==
    /\ DetailAnswered
    /\ request.endpoint = "api_party_detail"
    /\ request.party = "XYZ"
    /\ Len(data.rows) > 1
    /\ response.status = 404

\* an info block has been returned for a party with records
InfoReturned ==
    /\ DetailAnswered
    /\ RecordsOf(request.party) # {}

total_elections == Cardinality(RecordsOf(request.party))

wins == Cardinality({i \in RecordsOf(request.party) : data.rows[i].winner = 1})

\* C9 as stated: the returned unweighted win_rate (kept in tenths of a
\* percent) lies in [0, 100] and equals 100 * wins / total_elections.
C9_WinRateExact ==
    (InfoReturned /\ variant = "lr") =>
        /\ response.party_info.win_rate \in 0..1000
        /\ response.party_info.win_rate * total_elections = 1000 * wins

\* C9 (amended): the returned win_rate lies in [0, 100] and is
\* 100 * wins / total_elections rounded to one decimal place.
C9_WinRateRounded ==
    (InfoReturned /\ variant = "lr") =>
        /\ response.party_info.win_rate \in 0..1000
        /\ 2 * (response.party_info.win_rate * total_elections - 1000 * wins) <= total_elections
        /\ 2 * (1000 * wins - response.party_info.win_rate * total_elections) <= total_elections

\* C9's case: one win in three elections, returned as 33.3
C9_Witness ==
    /\ InfoReturned
    /\ variant = "lr"
    /\ total_elections = 3
    /\ wins = 1
    /\ response.party_info.win_rate = 333

YearsOf(p) == {data.rows[i].year : i \in RecordsOf(p)}

MaxOf(S) == CHOOSE x \in S : \A y \in S : y <= x

MinOf(S) == CHOOSE x \in S : \A y \in S : x <= y

\* the party's only win is its record of year y
OnlyWinIn(p, y) ==
    /\ \E i \in RecordsOf(p) : data.rows[i].year = y /\ data.rows[i].winner = 1
    /\ \A i \in RecordsOf(p) : data.rows[i].winner = 1 => data.rows[i].year = y

SpanOf(p) == MaxOf(YearsOf(p)) - MinOf(YearsOf(p))

\* 100 * 0.85^s / (1 + 0.85^s) in tenths of a percent, rounded up: what a
\* single win s years before the latest record can weigh at most
EarliestWinBound(s) ==
    (1000 * Pow(17, s) + Pow(17, s) + Pow(20, s) - 1) \div (Pow(17, s) + Pow(20, s))

RecordWeight(p, i) ==
    Pow(DecayNum, MaxOf(YearsOf(p)) - data.rows[i].year)
        * Pow(DecayDen, MaxYear - (MaxOf(YearsOf(p)) - data.rows[i].year))

\* the weights of the records of p, summed
TotalWeight(p) ==
    Sum([i \in DOMAIN data.rows |-> IF i \in RecordsOf(p) THEN RecordWeight(p, i) ELSE 0])

----------------------------------------------------------------------------
(* Claims about the feature vector *)

\* the parties of the loaded table
TrainedParties == {data.rows[i].party : i \in DOMAIN data.rows}

\* src/app.py answered a prediction for a party of the training data
KnownPartyPredicted ==
    /\ PredictAnswered
    /\ variant = "rf"
    /\ response.success
    /\ request.body["party_name"].kind = "str"
    /\ request.body["party_name"].text \in TrainedParties

\* the record the request describes, as a row of the data file
StandingRow ==
    [year |-> PREDICTION_YEAR,
     party |-> request.body["party_name"].text,
     mla_strength |-> float(request.body["mla_strength"]),
     alliance_mla_strength |-> float(request.body["alliance_mla_strength"]),
     past_rs_wins |-> float(request.body["past_rs_wins"]),
     candidate_type |-> response.prediction_data[6],
     winner |-> 0]

\* C11: for a party of the training data the vector predict hands to the
\* model is the vector training builds for a record of the same standing:
\* nine components in the order of FEATURES, the party code of the fitted
\* enumeration (the code the party's records carry in the training matrix),
\* the majority flag from 145 up and both shares over 288.
C11_SameFeatureVector ==
    KnownPartyPredicted =>
        LET v == response.prediction_data
            table == X(feature_engineering(csv.rows \o <<StandingRow>>))
        IN  /\ Len(v) = Len(FEATURES)
            /\ v = table[Len(table)]
            /\ \A i \in DOMAIN data.rows :
                   data.rows[i].party = request.body["party_name"].text =>
                       X(data.rows)[i][2] = v[2]

\* C11's case: a prediction for BJP from a table of two parties, the
\* alliance exactly at the threshold
C11_Witness ==
    /\ KnownPartyPredicted
    /\ request.body["party_name"] = Str("BJP")
    /\ request.body["alliance_mla_strength"] = Num(145)
    /\ Len(le_party.classes_) = 2
    /\ response.prediction_data[7] = 1

----------------------------------------------------------------------------
(* The service under concurrent requests: Flask serves every request on a  *)
(* thread of its own, and load_and_train_model runs statement by statement  *)
(* on the globals without a lock                                            *)

Threads == {1, 2}

Endpoints == {"predict", "api_party_detail", "api_parties", "get_stats"}

Idle == [pc |-> "idle", endpoint |-> "none", observed |-> "nothing"]

\* le_party = LabelEncoder(): set, and without classes_ until it is fitted
UnfittedEncoder == [set |-> TRUE, classes_ |-> <<>>]

\* the data files of this specification: none, or one with records
ConcurrentFiles == {f \in SmallFiles : f.exists => Len(f.rows) >= 1}

ConcurrentInit ==
    /\ variant = "rf"
    /\ csv \in ConcurrentFiles
    /\ data = NoData
    /\ le_party = NoEncoder
    /\ model = "None"
    /\ server = "threaded"
    /\ request = NoRequest
    /\ response = NoResponse
    /\ calls = <<>>
    /\ CleanerOff
    /\ threads = [t \in Threads |-> Idle]

At(t, pos) == threads[t].pc = pos

Goto(t, pos) == threads' = [threads EXCEPT ![t].pc = pos]

\* the thread's request ends with what it saw
Done(t, seen) == threads' = [threads EXCEPT ![t].pc = "done", ![t].observed = seen]

ConcurrentFrame == UNCHANGED <<variant, csv, server, request, response, calls, cleaner_vars>>

\* a request comes in and gets its thread
Arrive(t) ==
    /\ At(t, "idle")
    /\ \E e \in Endpoints : threads' = [threads EXCEPT ![t] = [pc |-> "entry", endpoint |-> e, observed |-> "nothing"]]
    /\ UNCHANGED <<data, le_party, model>>
    /\ ConcurrentFrame

\* `if model is None` in predict, `if data is None` in the other handlers
Entry(t) ==
    /\ At(t, "entry")
    /\ IF threads[t].endpoint = "predict" THEN
          Goto(t, IF model = "None" THEN "read_csv" ELSE "use")
       ELSE
          Goto(t, IF ~data.set THEN "read_csv" ELSE "use")
    /\ UNCHANGED <<data, le_party, model>>
    /\ ConcurrentFrame

\* data = pd.read_csv(csv_path)
LoadReadCsv(t) ==
    /\ At(t, "read_csv")
    /\ IF csv.exists
       THEN /\ data' = [set |-> TRUE, rows |-> csv.rows]
            /\ Goto(t, "encoder")
       ELSE /\ data' = data
            /\ Done(t, "error")
    /\ UNCHANGED <<le_party, model>>
    /\ ConcurrentFrame

\* le_party = LabelEncoder()
LoadNewEncoder(t) ==
    /\ At(t, "encoder")
    /\ le_party' = UnfittedEncoder
    /\ Goto(t, "features")
    /\ UNCHANGED <<data, model>>
    /\ ConcurrentFrame

\* le_party.fit_transform and the new columns of the global table
LoadFeatures(t) ==
    /\ At(t, "features")
    /\ le_party' = [set |-> TRUE, classes_ |-> fit_transform(data.rows)]
    /\ data' = [data EXCEPT !.rows = feature_engineering(data.rows)]
    /\ Goto(t, "split")
    /\ UNCHANGED model
    /\ ConcurrentFrame

\* train_test_split
LoadSplit(t) ==
    /\ At(t, "split")
    /\ IF train_test_split_raises(data.rows) THEN Done(t, "error") ELSE Goto(t, "new_model")
    /\ UNCHANGED <<data, le_party, model>>
    /\ ConcurrentFrame

\* model = RandomForestClassifier(...)
LoadNewModel(t) ==
    /\ At(t, "new_model")
    /\ model' = "unfitted"
    /\ Goto(t, "fit")
    /\ UNCHANGED <<data, le_party>>
    /\ ConcurrentFrame

\* model.fit(...), model.score(...) and the return to the handler
LoadFit(t) ==
    /\ At(t, "fit")
    /\ model' = "fitted"
    /\ Goto(t, "use")
    /\ UNCHANGED <<data, le_party>>
    /\ ConcurrentFrame

\* the handler's body: predict uses le_party and the model, the other
\* handlers read the table
Use(t) ==
    /\ At(t, "use")
    /\ IF threads[t].endpoint = "predict" THEN
          Done(t, IF le_party = NoEncoder \/ le_party = UnfittedEncoder THEN "unfitted_encoder"
                  ELSE IF model # "fitted" THEN "unfitted_model"
                  ELSE "fitted")
       ELSE
          Done(t, "data")
    /\ UNCHANGED <<data, le_party, model>>
    /\ ConcurrentFrame

\* the response is sent and the thread is free again
Finish(t) ==
    /\ At(t, "done")
    /\ threads' = [threads EXCEPT ![t] = Idle]
    /\ UNCHANGED <<data, le_party, model>>
    /\ ConcurrentFrame

ConcurrentNext ==
    \E t \in Threads :
        \/ Arrive(t)
        \/ Entry(t)
        \/ LoadReadCsv(t)
        \/ LoadNewEncoder(t)
        \/ LoadFeatures(t)
        \/ LoadSplit(t)
        \/ LoadNewModel(t)
        \/ LoadFit(t)
        \/ Use(t)
        \/ Finish(t)

SpecConcurrent == ConcurrentInit /\ [][ConcurrentNext]_vars

----------------------------------------------------------------------------
(* Claims about the process-wide state *)

\* C12: under every interleaving a request that uses the model or the party
\* enumeration sees them fitted, and once a build has completed the model,
\* the table and the enumeration are never assigned or changed again.
C12_BuiltOnceSeenBuilt ==
    [][/\ \A t \in Threads :
            threads'[t].observed \notin {"unfitted_model", "unfitted_encoder"}
       /\ model = "fitted" => (model' = model /\ data' = data /\ le_party' = le_party)]_vars

\* the three globals are all built, or all still unset
AllBuilt == data.set /\ (variant = "rf" => le_party.set) /\ model = "fitted"

NoneBuilt == ~data.set /\ ~le_party.set /\ model = "None"

\* C13: whenever load_and_train_model has ended, normally or with an error,
\* the table, the enumeration and the model are all built or all unset, so
\* that after a failed build no request is answered from a table without a
\* model.
C13_AllOrNothing ==
    /\ server \in {"idle", "responded"} => (AllBuilt \/ NoneBuilt)
    /\ (server = "responded" /\ request.endpoint # "predict" /\ model # "fitted") =>
           response.status = 500

\* C14: an exception raised while serving a request never leaves the
\* handler: every endpoint answers it with an error response of its own
\* (success = false, a server-error status).
C14_NoErrorEscapes ==
    server = "responded" =>
        /\ ~response.escaped
        /\ response.error = "internal" => (response.status = 500 /\ ~response.success)

----------------------------------------------------------------------------
(* Claims about lenient inputs *)

\* src/app.py answered a valid request for a party the enumeration lacks
UnknownPartyPredicted ==
    /\ PredictAnswered
    /\ variant = "rf"
    /\ PassesValidation(request.body)
    /\ request.body["party_name"].text \notin Range(le_party.classes_)

OutOfRangeCodes == {Num(7), Str("7"), Str("-1")}

\* a request with such a candidate_type, its other fields valid, has been answered
OutOfRangeCodePredicted ==
    /\ PredictAnswered
    /\ request.body["party_name"].kind = "str"
    /\ AllSupplied(request.body)
    /\ ValidNumbers(request.body)
    /\ request.body["candidate_type"] \in OutOfRangeCodes

\* C16: a candidate_type that is a number or a numeric string outside
\* {0, 1, 2} is taken unchanged as the candidate-type feature, without a
\* range check: the model is invoked and the response is a success.
C16_CodeAcceptedVerbatim ==
    OutOfRangeCodePredicted =>
        /\ response.status = 200
        /\ response.success
        /\ HasCall("predict") /\ HasCall("predict_proba")
        /\ CandidateFeature = (IF request.body["candidate_type"] = Str("-1") THEN -1 ELSE 7)

\* C16's case: "-1" sent to the second variant of the service
C16_Witness ==
    /\ OutOfRangeCodePredicted
    /\ variant = "lr"
    /\ request.body["candidate_type"] = Str("-1")
    /\ response.success

----------------------------------------------------------------------------
(* Claims about the candidate-type codes *)

\* the category the cleaner read for the record of output row n
CategoryOf(n) ==
    LET g == GroupRows(Remapped, <<output_csv[n].year, output_csv[n].party>>)
    IN  FirstText([i \in DOMAIN g |-> g[i].candidate_type])

\* C17: the code the cleaner writes for new, incumbent and mixed is the code
\* the prediction service gives the same token in a request.
C17_SameCandidateCodes ==
    pc = "saved" =>
        \A n \in DOMAIN output_csv :
            CategoryOf(n) \in {"new", "incumbent", "mixed"} =>
                output_csv[n].candidate_type = rf_candidate_type_mapping(CategoryOf(n))

====
